---- MODULE Spec2Model ----
(***************************************************************************)
(* tawf: the sitemap compiler and request dispatcher of src/tawdry.py.     *)
(*                                                                         *)
(* Strings are sequences of tokens.  A token is "/", "{", "}" or a word (a *)
(* maximal run of \w characters), so 'publisher/{publisher_id}' is         *)
(* <<"publisher", "/", "{", "publisher_id", "}">> and '' is <<>>.  Sitemap  *)
(* keys are '', a literal word, or '{name}'.  Python dicts keep insertion  *)
(* order, so a dict is a sequence of <<key, value>> pairs.                 *)
(* Every Python value is a pair <<kind, val>>: v[1] is its kind ("str",     *)
(* "int", "obj", "exc", "http", ...) and v[2] what it holds.               *)
(***************************************************************************)
EXTENDS Integers, Sequences, FiniteSets, TLC

\* ------------------------------------------------------------------ bounds
MaxSegs == 4
MaxSegsConc == 2
NumWorkers == 2

Workers == 1..NumWorkers

\* ------------------------------------------------------------------ values
StrV(s) == <<"str", s>>
IntV(n) == <<"int", n>>
ObjV(h, kwargs) == <<"obj", <<h, kwargs>>>>
Exc(type) == <<"exc", type>>
HTTPExc(code, raiser) == <<"http", <<code, raiser>>>>
WebobResponse(body) == <<"webob", body>>
Unbound == <<"unbound", "local">>
NoKeyword == "<unbound>"

IsExc(v) == v[1] \in {"exc", "http"}

\* ------------------------------------------------------------ ordered dict
DictHas(d, k) == \E i \in DOMAIN d : d[i][1] = k
DictGet(d, k) == d[CHOOSE i \in DOMAIN d : d[i][1] = k][2]
DictSet(d, k, v) ==
  IF DictHas(d, k)
    THEN [i \in DOMAIN d |-> IF d[i][1] = k THEN <<k, v>> ELSE d[i]]
    ELSE Append(d, <<k, v>>)
DictKeys(d) == {d[i][1] : i \in DOMAIN d}

\* ----------------------------------------------------------------- strings
EmptyStr == <<>>
Lit(w) == <<w>>
Ph(name) == <<"{", name, "}">>
IsWord(tok) == tok \notin {"/", "{", "}"}

RECURSIVE Join(_, _)
Join(sep, parts) ==
  IF parts = <<>> THEN <<>>
  ELSE IF Len(parts) = 1 THEN parts[1]
  ELSE parts[1] \o sep \o Join(sep, Tail(parts))

\* ---------------------------------------------------------------- handlers
\* params: the signature after `request`, <<name, annotation>> in order;
\* missing: the raw ids for which the handler raises webob HTTPNotFound.
HandlerDefs ==
  [ pub_handler    |-> [params |-> << <<"publisher_id", "empty">> >>, missing |-> {}],
    author_handler |-> [params |-> << <<"publisher_id", "empty">>, <<"author_id", "empty">> >>,
                        missing |-> {}],
    publisher      |-> [params |-> << <<"publisher_id", "int">> >>, missing |-> {}],
    author_str     |-> [params |-> << <<"publisher_id", "str">>, <<"author_id", "empty">> >>,
                        missing |-> {}],
    author_only    |-> [params |-> << <<"author_id", "empty">> >>, missing |-> {}],
    pub_checked    |-> [params |-> << <<"publisher_id", "empty">> >>, missing |-> {"7"}],
    index          |-> [params |-> << >>, missing |-> {}] ]

Map(items) == <<"map", items>>
Fn(h) == <<"fn", h>>

\* ---------------------------------------------------------------- sitemaps
\* The sitemap of the documented example: two nested index ('') handlers.
ExampleSitemap ==
  Map(<< <<Lit("publisher"), Map(<< <<Ph("publisher_id"), Map(<<
      <<EmptyStr, Fn("pub_handler")>>,
      <<Lit("author"), Map(<< <<Ph("author_id"), Map(<<
          <<EmptyStr, Fn("author_handler")>> >>)>> >>)>> >>)>> >>)>> >>)

\* The same shape as the sitemap of __main__, one level shorter: a typed
\* outer handler and an untyped inner one.
TypedSitemap ==
  Map(<< <<Ph("publisher_id"), Map(<<
      <<EmptyStr, Fn("publisher")>>,
      <<Ph("author_id"), Map(<< <<EmptyStr, Fn("author_handler")>> >>)>> >>)>> >>)

\* The inner handler declares a type for the chained parameter.
StrSitemap ==
  Map(<< <<Ph("publisher_id"), Map(<<
      <<EmptyStr, Fn("pub_handler")>>,
      <<Ph("author_id"), Map(<< <<EmptyStr, Fn("author_str")>> >>)>> >>)>> >>)

\* The inner handler does not declare the outer parameter.
AbsentSitemap ==
  Map(<< <<Ph("publisher_id"), Map(<<
      <<EmptyStr, Fn("pub_handler")>>,
      <<Ph("author_id"), Map(<< <<EmptyStr, Fn("author_only")>> >>)>> >>)>> >>)

\* The outer handler raises HTTPNotFound for publisher "7".
CheckedSitemap ==
  Map(<< <<Ph("publisher_id"), Map(<<
      <<EmptyStr, Fn("pub_checked")>>,
      <<Ph("author_id"), Map(<< <<EmptyStr, Fn("author_handler")>> >>)>> >>)>> >>)

\* A route made of literal segments only.
LiteralSitemap == Map(<< <<Lit("publisher"), Fn("index")>> >>)

\* An index handler at the root.
RootSitemap == Map(<< <<EmptyStr, Fn("index")>> >>)

\* Two handlers under non-empty keys of one Branch.
SiblingSitemap ==
  Map(<< <<Ph("publisher_id"), Fn("pub_handler")>>, <<Lit("author"), Fn("index")>> >>)

\* A placeholder key and a literal key in one Branch.
MixedSitemap ==
  Map(<< <<Ph("publisher_id"), Map(<< <<EmptyStr, Fn("pub_handler")>> >>)>>,
         <<Lit("publisher"), Map(<< <<Ph("author_id"), Map(<<
             <<EmptyStr, Fn("author_only")>> >>)>> >>)>>,
         <<Lit("author"), Map(<< <<EmptyStr, Fn("index")>> >>)>> >>)

Sitemaps ==
  { ExampleSitemap, TypedSitemap, StrSitemap, AbsentSitemap, CheckedSitemap,
    LiteralSitemap, RootSitemap, SiblingSitemap, MixedSitemap }

ConcSitemaps == { TypedSitemap, CheckedSitemap, MixedSitemap }

\* ------------------------------------------------------------ request paths
Words == {"publisher", "author", "42", "7"}
ConcWords == {"42", "7"}

SeqsUpTo(S, n) == UNION {[1..k -> S] : k \in 0..n}

\* '/' + segs joined by '/', with or without a trailing '/'; <<>> with no
\* trailing slash is the empty path.
PathOf(segs, trailing) ==
  Join(<<"/">>, <<EmptyStr>> \o [i \in DOMAIN segs |-> Lit(segs[i])]
                 \o (IF trailing THEN <<EmptyStr>> ELSE <<>>))

Paths == {PathOf(segs, t) : segs \in SeqsUpTo(Words, MaxSegs), t \in BOOLEAN}
ConcPaths == {PathOf(segs, FALSE) : segs \in SeqsUpTo(ConcWords, MaxSegsConc)}

\* ------------------------------------------------------------ route compiler
\* generate_sitemap: the (segments, handler) pairs in emission order.  The
\* loop variable `prefix` is rebound at a handler under a non-empty key and
\* the rebound value is what the later items of the same mapping see.
RECURSIVE generate_items(_, _)
generate_items(items, prefix) ==
  IF items = <<>> THEN <<>>
  ELSE LET segment == items[1][1]
           sub_segment == items[1][2]
       IN IF sub_segment[1] = "map"
            THEN generate_items(sub_segment[2], prefix \o <<segment>>)
                 \o generate_items(Tail(items), prefix)
            ELSE LET prefix2 == IF segment # EmptyStr THEN prefix \o <<segment>>
                                ELSE prefix
                 IN <<[template |-> prefix2, callable |-> sub_segment[2]]>>
                    \o generate_items(Tail(items), prefix2)

generate_sitemap(sitemap_, prefix) == generate_items(sitemap_[2], prefix)

\* compile_route_regex: the pattern as a sequence of items, a literal token
\* (escaped, matched verbatim) or a named group (?P<name>\w+); '^' and '$'
\* are the full match of RegexMatch.
RECURSIVE regex_items(_)
regex_items(template) ==
  IF template = <<>> THEN <<>>
  ELSE IF Len(template) >= 3 /\ template[1] = "{" /\ IsWord(template[2])
          /\ template[3] = "}"
    THEN << <<"group", template[2]>> >>
         \o regex_items(SubSeq(template, 4, Len(template)))
    ELSE << <<"lit", template[1]>> >> \o regex_items(Tail(template))

compile_route_regex(template) == regex_items(Join(<<"/">>, template))

\* re.match(regex, path_info) with '^...$'.  In these patterns a group is
\* followed by '/' or '$' only, and \w+ matches neither '/' nor the empty
\* string, so a group consumes exactly one word token.
RegexMatch(regex, path) ==
  /\ Len(regex) = Len(path)
  /\ \A i \in DOMAIN regex :
       IF regex[i][1] = "group" THEN IsWord(path[i]) ELSE path[i] = regex[i][2]

\* match.groupdict()
GroupDict(regex, path) ==
  LET names == {regex[i][2] : i \in {j \in DOMAIN regex : regex[j][1] = "group"}}
  IN [n \in names |->
        StrV(path[CHOOSE i \in DOMAIN regex : regex[i][1] = "group" /\ regex[i][2] = n])]

\* Tawdry.__init__: the route table, with the default prefix ''.
Prefix == EmptyStr
MakeRoutes(sitemap_) ==
  LET generated == generate_sitemap(sitemap_, <<Prefix>>)
  IN [i \in DOMAIN generated |->
        [regex |-> compile_route_regex(generated[i].template),
         template |-> generated[i].template,
         callable |-> generated[i].callable]]

\* ---------------------------------------------------------- parameter coercer
\* get_parameter_mappings: inspect.signature(callable), name -> annotation,
\* `request` first.
get_parameter_mappings(h) == << <<"request", "empty">> >> \o HandlerDefs[h].params

\* int(value)
Numerals == [s \in {"42", "7"} |-> IF s = "42" THEN 42 ELSE 7]
py_int(value) ==
  IF value[1] = "int" THEN value
  ELSE IF value[1] = "str"
    THEN IF value[2] \in DOMAIN Numerals THEN IntV(Numerals[value[2]])
         ELSE Exc("ValueError")
  ELSE Exc("TypeError")

\* str(value)
py_str(value) ==
  IF value[1] = "str" THEN value ELSE StrV(ToString(value[2]))

\* mapping(value), the annotation called as a one-argument converter
Convert(mapping, value) ==
  IF mapping = "int" THEN py_int(value) ELSE py_str(value)

\* map_params: a new dict built over context.items(); the first failing
\* item raises.
RECURSIVE map_items(_, _, _)
map_items(mappings, items, result) ==
  IF items = <<>> THEN <<"dict", result>>
  ELSE LET name == items[1][1]
           value == items[1][2]
       IN IF ~DictHas(mappings, name) THEN Exc("KeyError")
          ELSE LET mapping == DictGet(mappings, name)
                   mapped == IF mapping = "empty" THEN value
                             ELSE Convert(mapping, value)
               IN IF IsExc(mapped) THEN mapped
                  ELSE map_items(mappings, Tail(items), DictSet(result, name, mapped))

map_params(mappings, context) == map_items(mappings, context, <<>>)

\* resource_callable(request, **url_context): argument binding, then the
\* handler's body, which returns a fresh object or raises HTTPNotFound.
call_handler(h, kwargs) ==
  LET declared == {HandlerDefs[h].params[i][1] : i \in DOMAIN HandlerDefs[h].params}
  IN IF DictKeys(kwargs) # declared THEN Exc("TypeError")
     ELSE IF \E i \in DOMAIN kwargs :
                kwargs[i][2][1] = "str" /\ kwargs[i][2][2] \in HandlerDefs[h].missing
       THEN HTTPExc(404, h)
     ELSE ObjV(h, kwargs)

\* ------------------------------------------------------------------- state
VARIABLES
  sitemap,          \* the declaration handed to Tawdry(...)
  routes,           \* Tawdry._routes
  pc,               \* each worker's position in __call__ / replacement
  path_info,        \* request.path_info
  urlvars,          \* request.urlvars
  matched,          \* index of the route whose controller runs, 0 if none
  route_template,   \* the iterator over the matched route's segments
  url_context,      \* get_route_response: url_context
  sitemap_context,  \* get_route_response: sitemap_context
  keyword,          \* get_route_response: keyword
  response,         \* get_route_response / replacement: response
  calls,            \* the handler invocations of the request, in order
  outcome           \* what the WSGI server got back from __call__

vars == <<sitemap, routes, pc, path_info, urlvars, matched, route_template,
          url_context, sitemap_context, keyword, response, calls, outcome>>

Pending == <<"pending", "none">>
NoVars == [n \in {} |-> Unbound]

InitWorkers ==
  /\ pc = [r \in Workers |-> "idle"]
  /\ path_info = [r \in Workers |-> EmptyStr]
  /\ urlvars = [r \in Workers |-> NoVars]
  /\ matched = [r \in Workers |-> 0]
  /\ route_template = [r \in Workers |-> <<>>]
  /\ url_context = [r \in Workers |-> <<>>]
  /\ sitemap_context = [r \in Workers |-> Unbound]
  /\ keyword = [r \in Workers |-> NoKeyword]
  /\ response = [r \in Workers |-> Unbound]
  /\ calls = [r \in Workers |-> <<>>]
  /\ outcome = [r \in Workers |-> Pending]

Init ==
  /\ sitemap \in Sitemaps
  /\ routes = MakeRoutes(sitemap)
  /\ InitWorkers

InitConc ==
  /\ sitemap \in ConcSitemaps
  /\ routes = MakeRoutes(sitemap)
  /\ InitWorkers

\* -------------------------------------------------------------- dispatcher
None == <<"none", "none">>

\* sitemap_context[segment]
getitem(node, key) ==
  IF node[1] # "map" THEN Exc("TypeError")
  ELSE IF ~DictHas(node[2], key) THEN Exc("KeyError")
  ELSE DictGet(node[2], key)

\* segment.startswith('{') and segment.endswith('}')
IsPlaceholder(segment) ==
  segment # <<>> /\ Head(segment) = "{" /\ segment[Len(segment)] = "}"

\* The handler picked after the descent: the node itself when it is callable
\* and the segment is non-empty, else the node's '' entry when it has one.
resource_callable_of(node, segment) ==
  IF node[1] = "fn"
    THEN IF segment # EmptyStr THEN node[2] ELSE "None"
  ELSE IF DictHas(node[2], EmptyStr) THEN DictGet(node[2], EmptyStr)[2]
  ELSE "None"

\* One iteration of the loop of get_route_response.  raised is None or the
\* exception that leaves the loop; invoked holds the handler call made: the
\* handler, its keyword arguments, the keyword bound at that point and what
\* the call returned or raised.
Raise(exc, ctx, node, kw, resp, invoked) ==
  [raised |-> exc, url_context |-> ctx, sitemap_context |-> node, keyword |-> kw,
   response |-> resp, invoked |-> invoked]

walk_iteration(segment, ctx0, node0, kw0, resp0, uv) ==
  LET isph == IsPlaceholder(segment)
      kw1 == IF isph THEN segment[2] ELSE kw0
  IN IF isph /\ kw1 \notin DOMAIN uv
       THEN Raise(Exc("KeyError"), ctx0, node0, kw1, resp0, <<>>)
     ELSE
  LET ctx1 == IF isph THEN DictSet(ctx0, kw1, uv[kw1]) ELSE ctx0
      child == getitem(node0, segment)
  IN IF IsExc(child) THEN Raise(child, ctx1, node0, kw1, resp0, <<>>)
     ELSE
  LET h == resource_callable_of(child, segment)
  IN IF h = "None" THEN Raise(None, ctx1, child, kw1, resp0, <<>>)
     ELSE
  LET mapped == map_params(get_parameter_mappings(h), ctx1)
  IN IF IsExc(mapped) THEN Raise(mapped, ctx1, child, kw1, resp0, <<>>)
     ELSE
  LET result == call_handler(h, mapped[2])
      call == <<[fn |-> h, kwargs |-> mapped[2], keyword |-> kw1, result |-> result]>>
  IN IF result[1] = "exc" THEN Raise(result, mapped[2], child, kw1, resp0, <<>>)
     ELSE IF result[1] = "http"
       THEN Raise(result, mapped[2], child, kw1, resp0, call)
     ELSE IF kw1 = NoKeyword
       THEN Raise(Exc("UnboundLocalError"), mapped[2], child, kw1, result, call)
     ELSE Raise(None, DictSet(mapped[2], kw1, result), child, kw1, result, call)

\* The loop over the routes keeping the last hit instead of returning at the
\* first.
last_match(routes_, path) ==
  LET hits == {i \in DOMAIN routes_ : RegexMatch(routes_[i].regex, path)}
  IN IF hits = {} THEN 0 ELSE CHOOSE i \in hits : \A j \in hits : i >= j

\* Tawdry.__call__: the first route whose regex matches, 0 when none does.
first_match(routes_, path) ==
  LET hits == {i \in DOMAIN routes_ : RegexMatch(routes_[i].regex, path)}
  IN IF hits = {} THEN 0 ELSE CHOOSE i \in hits : \A j \in hits : i <= j

\* A url_context kept outside the call, so that a request starts from the
\* dict another request in flight is filling.
shared_url_context(r) ==
  LET others == {q \in Workers \ {r} : pc[q] = "walk"}
  IN IF others = {} THEN <<>> ELSE url_context[CHOOSE q \in others : TRUE]

\* get_route_response: url_context = {}
new_url_context(r) == <<>>

\* The response wrapper applied to whatever the walk produced.
make_response_always(resp) == WebobResponse(py_str(resp)[2])

\* replacement: an HTTPException is the response as it is, anything else is
\* wrapped by Response.__call__ (str() of the value as the body).
make_response(resp) ==
  IF resp[1] # "http" THEN WebobResponse(py_str(resp)[2]) ELSE resp

Responded(obj) == <<"response", obj>>
Crashed(exc) == <<"exception", exc[2]>>

\* The WSGI server hands a request to an idle worker.
Receive(r, path) ==
  /\ pc[r] = "idle"
  /\ pc' = [pc EXCEPT ![r] = "match"]
  /\ path_info' = [path_info EXCEPT ![r] = path]
  /\ UNCHANGED <<sitemap, routes, urlvars, matched, route_template, url_context,
                 sitemap_context, keyword, response, calls, outcome>>

\* The server has sent the response (or logged the exception) and the
\* request, with everything that belonged to it, is gone.
Finish(r) ==
  /\ pc[r] = "done"
  /\ pc' = [pc EXCEPT ![r] = "idle"]
  /\ path_info' = [path_info EXCEPT ![r] = EmptyStr]
  /\ urlvars' = [urlvars EXCEPT ![r] = NoVars]
  /\ matched' = [matched EXCEPT ![r] = 0]
  /\ route_template' = [route_template EXCEPT ![r] = <<>>]
  /\ url_context' = [url_context EXCEPT ![r] = <<>>]
  /\ sitemap_context' = [sitemap_context EXCEPT ![r] = Unbound]
  /\ keyword' = [keyword EXCEPT ![r] = NoKeyword]
  /\ response' = [response EXCEPT ![r] = Unbound]
  /\ calls' = [calls EXCEPT ![r] = <<>>]
  /\ outcome' = [outcome EXCEPT ![r] = Pending]
  /\ UNCHANGED <<sitemap, routes>>

\* Tawdry.__call__ up to the controller's entry into get_route_response.
Match(r) ==
  /\ pc[r] = "match"
  /\ LET i == first_match(routes, path_info[r])
     IN IF i = 0
          THEN /\ pc' = [pc EXCEPT ![r] = "done"]
               /\ outcome' = [outcome EXCEPT ![r] = Responded(HTTPExc(404, "router"))]
               /\ UNCHANGED <<urlvars, matched, route_template, url_context,
                              sitemap_context>>
          ELSE /\ pc' = [pc EXCEPT ![r] = "walk"]
               /\ urlvars' = [urlvars EXCEPT ![r] = GroupDict(routes[i].regex, path_info[r])]
               /\ matched' = [matched EXCEPT ![r] = i]
               /\ route_template' = [route_template EXCEPT ![r] = Tail(routes[i].template)]
               /\ url_context' = [url_context EXCEPT ![r] = new_url_context(r)]
               /\ sitemap_context' = [sitemap_context EXCEPT ![r] = sitemap]
               /\ UNCHANGED outcome
  /\ UNCHANGED <<sitemap, routes, path_info, keyword, response, calls>>

\* get_route_response: one pass of `for segment in route_template`.
WalkStep(r) ==
  /\ pc[r] = "walk"
  /\ route_template[r] # <<>>
  /\ LET it == walk_iteration(Head(route_template[r]), url_context[r],
                              sitemap_context[r], keyword[r], response[r], urlvars[r])
     IN /\ calls' = [calls EXCEPT ![r] = @ \o it.invoked]
        /\ keyword' = [keyword EXCEPT ![r] = it.keyword]
        /\ url_context' = [url_context EXCEPT ![r] = it.url_context]
        /\ sitemap_context' = [sitemap_context EXCEPT ![r] = it.sitemap_context]
        /\ route_template' = [route_template EXCEPT ![r] = Tail(@)]
        /\ IF it.raised = None
             THEN /\ response' = [response EXCEPT ![r] = it.response]
                  /\ UNCHANGED <<pc, outcome>>
           ELSE IF it.raised[1] = "http"
             THEN \* except webob.exc.HTTPException as e: response = e
                  /\ pc' = [pc EXCEPT ![r] = "respond"]
                  /\ response' = [response EXCEPT ![r] = it.raised]
                  /\ UNCHANGED outcome
           ELSE \* any other exception leaves replacement and __call__
                  /\ pc' = [pc EXCEPT ![r] = "done"]
                  /\ outcome' = [outcome EXCEPT ![r] = Crashed(it.raised)]
                  /\ response' = [response EXCEPT ![r] = it.response]
  /\ UNCHANGED <<sitemap, routes, path_info, urlvars, matched>>

\* get_route_response: `return response` once the template is consumed.
WalkReturn(r) ==
  /\ pc[r] = "walk"
  /\ route_template[r] = <<>>
  /\ IF response[r] = Unbound
       THEN /\ pc' = [pc EXCEPT ![r] = "done"]
            /\ outcome' = [outcome EXCEPT ![r] = Crashed(Exc("UnboundLocalError"))]
       ELSE /\ pc' = [pc EXCEPT ![r] = "respond"]
            /\ UNCHANGED outcome
  /\ UNCHANGED <<sitemap, routes, path_info, urlvars, matched, route_template,
                 url_context, sitemap_context, keyword, response, calls>>

\* replacement, after the try block: wrap and send.
Respond(r) ==
  /\ pc[r] = "respond"
  /\ pc' = [pc EXCEPT ![r] = "done"]
  /\ outcome' = [outcome EXCEPT ![r] = Responded(make_response(response[r]))]
  /\ UNCHANGED <<sitemap, routes, path_info, urlvars, matched, route_template,
                 url_context, sitemap_context, keyword, response, calls>>

Step(r) == Match(r) \/ WalkStep(r) \/ WalkReturn(r) \/ Respond(r) \/ Finish(r)

\* One request at a time, any path of up to MaxSegs segments.
Next == (\E path \in Paths : Receive(1, path)) \/ Step(1)

\* NumWorkers requests in flight at once.
NextConc == \E r \in Workers : (\E path \in ConcPaths : Receive(r, path)) \/ Step(r)

Spec == Init /\ [][Next]_vars
SpecConc == InitConc /\ [][NextConc]_vars

\* ================================================================== claims
Status(out) ==
  IF out[1] # "response" THEN 0
  ELSE IF out[2][1] = "http" THEN out[2][2][1] ELSE 200

Matching(path) == {i \in DOMAIN routes : RegexMatch(routes[i].regex, path)}

\* The handler the re-walk selected at the node it stands on.
CurrentHandler(r) ==
  IF sitemap_context[r][1] = "fn" THEN sitemap_context[r][2]
  ELSE IF sitemap_context[r][1] = "map" /\ DictHas(sitemap_context[r][2], EmptyStr)
    THEN DictGet(sitemap_context[r][2], EmptyStr)[2]
  ELSE "None"

CallsOf(r) == [i \in DOMAIN calls[r] |-> <<calls[r][i].fn, calls[r][i].kwargs>>]

\* ---- C1
ExamplePath == PathOf(<<"publisher", "42", "author", "7">>, TRUE)
ExampleP == ObjV("pub_handler", << <<"publisher_id", StrV("42")>> >>)
ExampleA == ObjV("author_handler", << <<"publisher_id", ExampleP>>, <<"author_id", StrV("7")>> >>)

\* C1: with the example sitemap, a finished dispatch of /publisher/42/author/7/
\* has invoked pub_handler(publisher_id="42") and then
\* author_handler(publisher_id=P, author_id="7"), and the rendered result of
\* author_handler is the response.
C1_ExampleDispatch ==
  \A r \in Workers :
    (sitemap = ExampleSitemap /\ pc[r] = "done" /\ path_info[r] = ExamplePath)
    => /\ CallsOf(r) = << <<"pub_handler", ExampleP[2][2]>>,
                          <<"author_handler", ExampleA[2][2]>> >>
       /\ outcome[r] = Responded(WebobResponse(py_str(ExampleA)[2]))

\* ---- C2
\* C2: whenever a handler invoked with a placeholder name bound returns V and
\* a further handler is invoked after it, that handler's argument of that
\* name is V itself.
C2_ChainingHandoff ==
  \A r \in Workers : \A i \in DOMAIN calls[r] :
    (i + 1 \in DOMAIN calls[r] /\ calls[r][i].keyword # NoKeyword)
    => /\ DictHas(calls[r][i + 1].kwargs, calls[r][i].keyword)
       /\ DictGet(calls[r][i + 1].kwargs, calls[r][i].keyword) = calls[r][i].result

\* ---- C3
\* C3: a finished request has produced a response (a rendered result, a
\* structured HTTP error or not-found), never an internal error; the model's
\* handlers raise nothing but structured HTTP errors.
C3_AlwaysAResponse ==
  \A r \in Workers : pc[r] = "done" => outcome[r][1] = "response"

\* ---- C4
RaisedAt(r) == {i \in DOMAIN calls[r] : calls[r][i].result[1] = "http"}

\* C4: once a handler of the chain has raised a structured HTTP error, it is
\* the last handler invoked, the error is the request's response object, and
\* the finished request returned that error itself, not a rendering of it.
C4_ErrorInterception ==
  \A r \in Workers : \A i \in RaisedAt(r) :
    /\ i = Len(calls[r])
    /\ pc[r] \in {"respond", "done"}
    /\ response[r] = calls[r][i].result
    /\ pc[r] = "done" => outcome[r] = Responded(calls[r][i].result)

\* A route with a handler after the raising one: /7/42 on CheckedSitemap.
C4_Witness ==
  /\ sitemap = CheckedSitemap
  /\ pc[1] = "done"
  /\ path_info[1] = PathOf(<<"7", "42">>, FALSE)
  /\ routes[matched[1]].callable = "author_handler"
  /\ Len(calls[1]) = 1
  /\ outcome[1] = Responded(HTTPExc(404, "pub_checked"))

\* ---- C5
\* The re-walk stands on a handler that declares int for a name whose value
\* in the context is a captured string int() rejects.
RejectedParameter(r) ==
  /\ CurrentHandler(r) # "None"
  /\ \E i \in DOMAIN url_context[r] :
       LET name == url_context[r][i][1]
           value == url_context[r][i][2]
           mappings == get_parameter_mappings(CurrentHandler(r))
       IN /\ DictHas(mappings, name)
          /\ DictGet(mappings, name) = "int"
          /\ value[1] = "str"
          /\ value[2] \notin DOMAIN Numerals

\* C5: a request whose captured string is rejected by the declared type's
\* converter ends in a 400-class response, and the handler is not invoked.
C5_CoercionFailureIs400 ==
  \A r \in Workers :
    (pc[r] = "done" /\ RejectedParameter(r))
    => /\ Status(outcome[r]) \in 400..499
       /\ \A i \in DOMAIN calls[r] : calls[r][i].fn # CurrentHandler(r)

\* ---- C6
\* The re-walk can follow the template from the node down to its end.
RECURSIVE Descends(_, _)
Descends(node, template) ==
  \/ template = <<>>
  \/ /\ ~IsExc(getitem(node, Head(template)))
     /\ Descends(getitem(node, Head(template)), Tail(template))

\* The request matched a route whose segment list the sitemap cannot be
\* walked along.
CannotDescend(r) ==
  /\ matched[r] # 0
  /\ ~Descends(sitemap, Tail(routes[matched[r]].template))

\* C6: a request whose re-walk cannot descend ends in a 404-class response.
C6_RewalkFailureIs404 ==
  \A r \in Workers :
    (pc[r] = "done" /\ CannotDescend(r)) => Status(outcome[r]) = 404

\* ---- C7
\* The value was captured from the request's own path or returned by one of
\* the request's own handler invocations.
OwnValue(r, v) ==
  /\ v[1] \in {"str", "int", "obj"}
  /\ v[1] = "str" => \E n \in DOMAIN urlvars[r] : urlvars[r][n] = v
  /\ v[1] = "int" => \E n \in DOMAIN urlvars[r] : py_int(urlvars[r][n]) = v
  /\ v[1] = "obj" => \E i \in DOMAIN calls[r] : calls[r][i].result = v

Isolated ==
  /\ \A r \in Workers :
       /\ matched[r] # 0
          => urlvars[r] = GroupDict(routes[matched[r]].regex, path_info[r])
       /\ \A i \in DOMAIN url_context[r] : OwnValue(r, url_context[r][i][2])
       /\ \A i \in DOMAIN calls[r] : \A j \in DOMAIN calls[r][i].kwargs :
            OwnValue(r, calls[r][i].kwargs[j][2])
  /\ \A r1, r2 \in Workers :
       (pc[r1] = "done" /\ pc[r2] = "done" /\ path_info[r1] = path_info[r2])
       => calls[r1] = calls[r2] /\ outcome[r1] = outcome[r2]

\* C7: with any number of requests in flight, in any interleaving, a
\* request's context and handler arguments hold only values captured from
\* its own path or returned by its own handler invocations; two finished
\* dispatches of one path made the same calls with the same arguments and got
\* the same outcome; and no step changes the route table or the sitemap.
C7_RequestIsolation ==
  /\ []Isolated
  /\ [][routes' = routes /\ sitemap' = sitemap]_vars

\* Two requests of different paths in flight at once, each past its first
\* handler, with different contexts.
C7_Witness ==
  /\ pc[1] = "walk" /\ pc[2] = "walk"
  /\ path_info[1] # path_info[2]
  /\ calls[1] # <<>> /\ calls[2] # <<>>
  /\ url_context[1] # url_context[2]

\* ---- C8
\* The keys from the root to each Leaf, '' keys left out, after the prefix.
RECURSIVE leaf_paths(_, _)
leaf_paths(items, path) ==
  IF items = <<>> THEN <<>>
  ELSE LET key == items[1][1]
           node == items[1][2]
       IN (IF node[1] = "map" THEN leaf_paths(node[2], path \o <<key>>)
           ELSE <<[template |-> IF key = EmptyStr THEN path ELSE path \o <<key>>,
                   callable |-> node[2]]>>)
          \o leaf_paths(Tail(items), path)

\* C8: the route table holds one (segments, handler) pair per Leaf, whose
\* segments are the prefix followed by the keys from the root to the Leaf,
\* '' keys adding nothing, whatever siblings come before the Leaf.
C8_RouteCompilation ==
  [i \in DOMAIN routes |-> [template |-> routes[i].template,
                            callable |-> routes[i].callable]]
    = leaf_paths(sitemap[2], <<Prefix>>)

\* ---- C9
\* C9 as stated: at most one compiled route's pattern matches a request path.
C9_AtMostOneMatch ==
  \A r \in Workers : pc[r] # "idle" => Cardinality(Matching(path_info[r])) <= 1

\* C9 as amended: patterns may overlap, and the route dispatched is the first
\* of the route table whose pattern matches the path (none is dispatched
\* exactly when none matches).
C9_FirstMatchWins ==
  \A r \in Workers :
    pc[r] \in {"walk", "respond", "done"}
    => /\ matched[r] = 0 <=> Matching(path_info[r]) = {}
       /\ matched[r] # 0
          => /\ matched[r] \in Matching(path_info[r])
             /\ \A j \in Matching(path_info[r]) : matched[r] <= j

\* /author matches '/{publisher_id}' and '/author'; the first is dispatched.
C9_Witness ==
  /\ sitemap = MixedSitemap
  /\ pc[1] = "done"
  /\ Cardinality(Matching(path_info[1])) = 2
  /\ matched[1] = 1
  /\ calls[1] # <<>>

\* ---- C10
\* The re-walk stands on a handler whose signature lacks a name of the
\* context.
UndeclaredEntry(r) ==
  /\ CurrentHandler(r) # "None"
  /\ \E i \in DOMAIN url_context[r] :
       ~DictHas(get_parameter_mappings(CurrentHandler(r)), url_context[r][i][1])

\* C10: a context entry the handler does not declare does not make the
\* invocation fail: the request with such an entry still ends in a response
\* and the handler has been invoked.
C10_CoercerFrame ==
  \A r \in Workers :
    (pc[r] = "done" /\ UndeclaredEntry(r))
    => /\ outcome[r][1] = "response"
       /\ \E i \in DOMAIN calls[r] : calls[r][i].fn = CurrentHandler(r)
====
